---- MODULE Spec2Model ----
(***************************************************************************)
(* Model of src/src/flaresolverr.py: proxy discovery at startup, the       *)
(* per-domain proxy assignment kept in DOMAIN_PROXIES, and the request     *)
(* handler controller_v1 run by the worker threads of the web server.      *)
(*                                                                         *)
(* Strings are sequences of one-character strings, so that str.replace and *)
(* the f-strings of the source are computed on characters.  None is the    *)
(* empty option <<>> and a present value v is <<v>>.  A Python list is a   *)
(* sequence.  random.sample is modelled by its possible results listed in  *)
(* pool order (the code never reads the order of an assignment except      *)
(* through random.choice, which may return any position).                  *)
(*                                                                         *)
(* The web server runs controller_v1 on several threads.  A handler is cut *)
(* into steps at its accesses to the globals PROXY_POOL and DOMAIN_PROXIES;*)
(* statements that touch only the handler's own frame belong to the step   *)
(* of the access before them.                                              *)
(***************************************************************************)
EXTENDS Integers, Sequences, FiniteSets, TLC

VARIABLES
    mainpc,          \* position of __main__: "discover", "setup", "serving"
    net,             \* environment: the hosts that accept a connection
    x,               \* discover_proxies: loop variable of line 46
    proxies,         \* discover_proxies: local list of line 45
    PROXY_POOL,      \* global of line 35
    DOMAIN_PROXIES,  \* global of line 37: function from domain to list
    th,              \* per worker thread: the frame of controller_v1
    accepted,        \* environment: number of requests the server has accepted
    poolWrites,      \* history: number of assignments to PROXY_POOL by the code
    overwrites,      \* history: per domain, number of overwrites (l. 81/83) that
                     \* replaced a stored assignment by a different list
    probes,          \* history: number of connections discover_proxies attempted
    lastProbed,      \* history: the candidate of the latest attempt, -1 before it
    reruns,          \* environment: number of later calls of discover_proxies
    arg,             \* functions applied on their own: the input
    out              \* functions applied on their own: the result

vars == <<mainpc, net, x, proxies, PROXY_POOL, DOMAIN_PROXIES, th, accepted, poolWrites,
          overwrites, probes, lastProbed, reruns, arg, out>>

(***************************** bounds **************************************)
\* Number of requests the clients send in one run of the server.
MaxRequests == 2
\* Number of times discover_proxies is called again after the server started.
MaxReruns == 1

(************************ program constants ********************************)
NumCandidates == 120
SubsetCap == 10
Port == 8888

(***************************** strings *************************************)
None == <<>>
Some(v) == <<v>>
Val(o) == o[1]

DigitChars == <<"0", "1", "2", "3", "4", "5", "6", "7", "8", "9">>

RECURSIVE Digits(_)
\* str(n) of a non-negative integer, as the f-strings of lines 47 and 53 format it
Digits(n) ==
    IF n < 10 THEN <<DigitChars[n + 1]>>
    ELSE Digits(n \div 10) \o <<DigitChars[(n % 10) + 1]>>

\* f"10.0.{x}.1"
Host(h) == <<"1", "0", ".", "0", ".">> \o Digits(h) \o <<".", "1">>

\* f"http://{host}:{port}"
ProxyUrl(h) ==
    <<"h", "t", "t", "p", ":", "/", "/">> \o Host(h) \o <<":">> \o Digits(Port)

\* Whether old occurs in s at position i.
MatchAt(s, i, old) ==
    /\ i + Len(old) - 1 <= Len(s)
    /\ \A j \in 1 .. Len(old) : s[i + j - 1] = old[j]

RECURSIVE ReplaceFrom(_, _, _, _)
\* s[i..] with the occurrences of old replaced, scanning left to right
ReplaceFrom(s, i, old, new) ==
    IF i > Len(s) THEN <<>>
    ELSE IF MatchAt(s, i, old)
         THEN new \o ReplaceFrom(s, i + Len(old), old, new)
         ELSE <<s[i]>> \o ReplaceFrom(s, i + 1, old, new)

\* Python's s.replace(old, new) for a non-empty old: every non-overlapping
\* occurrence, found left to right
Replace(s, old, new) == ReplaceFrom(s, 1, old, new)

HttpScheme == <<"h", "t", "t", "p", ":", "/", "/">>
KeyPrefix == <<"f", "l", "a", "r", "e", "s", "o", "l", "v", "e", "r", "r", "-">>

\* line 87, for a domain and a proxy that are both strings
SessionKey(domain, proxy) ==
    KeyPrefix \o Replace(domain, <<".">>, <<"_">>) \o <<"-">>
        \o Replace(Replace(proxy, <<".">>, <<"_">>), HttpScheme, <<>>)

DefaultSession ==
    <<"f", "l", "a", "r", "e", "s", "o", "l", "v", "e", "r", "r", "-",
      "d", "e", "f", "a", "u", "l", "t", "-", "s", "e", "s", "s", "i", "o", "n">>

(***************************** inputs **************************************)
\* The worker threads of the web server that run controller_v1 concurrently.
Threads == {1, 2}

\* The networks discovery may meet: which candidate hosts accept a connection.
Networks == {{}, {1, 119}, 0 .. 10}

\* The networks a later call of discover_proxies may find.
RerunNetworks == Networks

\* Network locations of the request URLs.
Domains == {<<"a", ".", "b">>, <<"a", "_", "b">>}

\* Bodies request.json may hold: none (the handler takes {}), or a body that
\* names a session of its own.
Payloads ==
    {[session |-> None, proxy |-> None],
     [session |-> Some(<<"s">>), proxy |-> None]}

Range(s) == {s[i] : i \in 1 .. Len(s)}

\* The endpoints discovery can find, as the strings line 53 builds.
Endpoints == {ProxyUrl(h) : h \in 0 .. (NumCandidates - 1)}

\* SessionKey tabulated over the domains and endpoints of the model.
KeyTable == [d \in Domains, e \in Endpoints |-> SessionKey(d, e)]

\* The i-th smallest member of a set of positions.
Nth(S, i) == CHOOSE e \in S : Cardinality({y \in S : y < e}) = i - 1

\* random.sample(pool, k): k elements taken at k distinct positions of pool.
\* Raises ValueError (no result) when k exceeds len(pool).
Samples(pool, k) ==
    {[i \in 1 .. k |-> pool[Nth(S, i)]] :
        S \in {P \in SUBSET (1 .. Len(pool)) : Cardinality(P) = k}}

(****************************** state **************************************)
\* The frame of a worker thread that runs no request.
IdleFrame ==
    [pc |-> "idle", domain |-> None, payload |-> [session |-> None, proxy |-> None],
     session_id |-> None, tmp |-> <<>>, proxy |-> None, exc |-> "none", calls |-> 0]

\* The program before line 133 in network n.
InitProgram(n) ==
    /\ mainpc = "discover"
    /\ net = n
    /\ x = 0
    /\ proxies = <<>>
    /\ PROXY_POOL = <<>>
    /\ DOMAIN_PROXIES = [d \in {} |-> <<>>]
    /\ th = [t \in Threads |-> IdleFrame]
    /\ accepted = 0
    /\ poolWrites = 0
    /\ overwrites = [d \in Domains |-> 0]
    /\ probes = 0
    /\ lastProbed = -1
    /\ reruns = 0

Init ==
    /\ \E n \in Networks : InitProgram(n)
    /\ arg = None
    /\ out = None

(*************************** discover_proxies ******************************)
\* Mutant of Probe: the endpoint appended whether or not the connection
\* succeeded (the append moved out of the try block).
ProbeAppendsAlways(acc, h, n) == Append(acc, ProxyUrl(h))

\* Lines 47-57 for candidate h in network n: the local list after the probe.
\* A connection that fails raises inside the try block; the exception is
\* swallowed at line 54 and the list is as before.
Probe(acc, h, n) == IF h \in n THEN Append(acc, ProxyUrl(h)) ELSE acc

\* One iteration of the loop of lines 46-57: connect, append on success.
DiscoverProbe ==
    /\ mainpc = "discover"
    /\ x < NumCandidates
    /\ proxies' = Probe(proxies, x, net)
    /\ x' = x + 1
    /\ probes' = probes + 1
    /\ lastProbed' = x
    /\ UNCHANGED <<mainpc, net, PROXY_POOL, DOMAIN_PROXIES, th, accepted, poolWrites, overwrites, reruns, arg, out>>

\* Line 58, after the loop: PROXY_POOL = proxies; the function returns and its
\* locals are gone.
DiscoverFinish ==
    /\ mainpc = "discover"
    /\ x = NumCandidates
    /\ PROXY_POOL' = proxies
    /\ poolWrites' = poolWrites + 1
    /\ mainpc' = "setup"
    /\ x' = 0
    /\ proxies' = <<>>
    /\ UNCHANGED <<net, DOMAIN_PROXIES, th, accepted, overwrites, probes, lastProbed, reruns, arg, out>>

\* Lines 134-198: configuration, then run(app, ...) starts the web server.
StartServer ==
    /\ mainpc = "setup"
    /\ mainpc' = "serving"
    /\ UNCHANGED <<net, x, proxies, PROXY_POOL, DOMAIN_PROXIES, th, accepted, poolWrites, overwrites, probes, lastProbed, reruns, arg, out>>

\* The loop of lines 46-57 over the candidates lo .. hi - 1 in network n,
\* started with an empty list.  Probe only appends, so the loop over a range
\* is the loop over its first half followed by the loop over its second half.
RECURSIVE Scanned(_, _, _)
Scanned(lo, hi, n) ==
    IF hi <= lo THEN <<>>
    ELSE IF hi = lo + 1 THEN Probe(<<>>, lo, n)
    ELSE LET mid == (lo + hi) \div 2
         IN Scanned(lo, mid, n) \o Scanned(mid, hi, n)

\* The list a complete scan assigns at line 58, tabulated over the networks.
ScanTable == [n \in RerunNetworks |-> Scanned(0, NumCandidates, n)]

\* discover_proxies called again while the server runs, in a network n that
\* may differ from the one of the first scan.  The loop reads and writes the
\* function's locals only, so the call is one step at its only access to a
\* global, the assignment of line 58.
Rediscover(n) ==
    /\ mainpc = "serving"
    /\ reruns < MaxReruns
    /\ reruns' = reruns + 1
    /\ net' = n
    /\ PROXY_POOL' = ScanTable[n]
    /\ poolWrites' = poolWrites + 1
    /\ probes' = probes + NumCandidates
    /\ lastProbed' = NumCandidates - 1
    /\ UNCHANGED <<mainpc, x, proxies, DOMAIN_PROXIES, th, accepted, overwrites, arg, out>>

(***************************** controller_v1 *******************************)
Frame(t) == th[t]
SetFrame(t, f) == th' = [th EXCEPT ![t] = f]
Raise(t, e) == SetFrame(t, [Frame(t) EXCEPT !.pc = "error", !.exc = e])

\* Lines 67-76.  ok: whether urlparse(request.url) returns; d: its netloc;
\* p: request.json or {}.  The except clause of line 73 formats the name url,
\* which is bound nowhere: evaluating it raises NameError out of the handler.
Enter(ok, d, p) ==
    IF ok
    THEN [IdleFrame EXCEPT
            !.pc = "check",
            !.domain = Some(d),
            !.session_id = IF d # <<>> THEN Some(DefaultSession) ELSE None,
            !.payload = [p EXCEPT !.session = Some(d)]]
    ELSE [IdleFrame EXCEPT !.pc = "error", !.exc = "NameError", !.payload = p]

\* A worker thread takes a request and runs lines 67-76 on it.
Begin(t, ok, d, p) ==
    /\ mainpc = "serving"
    /\ Frame(t).pc = "idle"
    /\ accepted < MaxRequests
    /\ accepted' = accepted + 1
    /\ SetFrame(t, Enter(ok, d, p))
    /\ UNCHANGED <<mainpc, net, x, proxies, PROXY_POOL, DOMAIN_PROXIES, poolWrites, overwrites, probes, lastProbed, reruns, arg, out>>

\* Line 79: domain not in DOMAIN_PROXIES.  When the domain is found the
\* thread skips lines 80-83 and stands before line 85 at "found"; a thread
\* that comes to line 85 from the store of lines 81/83 stands at "cond".
Check(t) ==
    /\ Frame(t).pc = "check"
    /\ SetFrame(t, [Frame(t) EXCEPT !.pc =
            IF Val(Frame(t).domain) \in DOMAIN DOMAIN_PROXIES THEN "found" ELSE "len"])
    /\ UNCHANGED <<mainpc, net, x, proxies, PROXY_POOL, DOMAIN_PROXIES, accepted, poolWrites, overwrites, probes, lastProbed, reruns, arg, out>>

\* Mutant of LenTest: the comparison of line 80 written the wrong way round.
LenTestInverted(t) ==
    /\ Frame(t).pc = "len"
    /\ SetFrame(t, [Frame(t) EXCEPT !.pc =
            IF Len(PROXY_POOL) <= SubsetCap THEN "sample" ELSE "copy"])
    /\ UNCHANGED <<mainpc, net, x, proxies, PROXY_POOL, DOMAIN_PROXIES, accepted, poolWrites, overwrites, probes, lastProbed, reruns, arg, out>>

\* Line 80: len(PROXY_POOL) >= 10.
LenTest(t) ==
    /\ Frame(t).pc = "len"
    /\ SetFrame(t, [Frame(t) EXCEPT !.pc =
            IF Len(PROXY_POOL) >= SubsetCap THEN "sample" ELSE "copy"])
    /\ UNCHANGED <<mainpc, net, x, proxies, PROXY_POOL, DOMAIN_PROXIES, accepted, poolWrites, overwrites, probes, lastProbed, reruns, arg, out>>

\* Mutant of Sample: the sample taken by shuffling PROXY_POOL in place
\* (random.shuffle(PROXY_POOL); PROXY_POOL[:10]); one outcome of the shuffle.
SampleByShuffle(t) ==
    /\ Frame(t).pc = "sample"
    /\ LET n == Len(PROXY_POOL)
           sh == [i \in 1 .. n |-> PROXY_POOL[n + 1 - i]]
       IN /\ PROXY_POOL' = sh
          /\ SetFrame(t, [Frame(t) EXCEPT !.pc = "store", !.tmp = SubSeq(sh, 1, SubsetCap)])
    /\ UNCHANGED <<mainpc, net, x, proxies, DOMAIN_PROXIES, accepted, poolWrites, overwrites, probes, lastProbed, reruns, arg, out>>

\* Line 81, right-hand side: random.sample(PROXY_POOL, 10).
Sample(t) ==
    /\ Frame(t).pc = "sample"
    /\ IF Len(PROXY_POOL) < SubsetCap
       THEN Raise(t, "ValueError")
       ELSE \E s \in Samples(PROXY_POOL, SubsetCap) :
                SetFrame(t, [Frame(t) EXCEPT !.pc = "store", !.tmp = s])
    /\ UNCHANGED <<mainpc, net, x, proxies, PROXY_POOL, DOMAIN_PROXIES, accepted, poolWrites, overwrites, probes, lastProbed, reruns, arg, out>>

\* Mutant of Copy: a slice that loses the last endpoint (PROXY_POOL[:-1]).
CopyAllButLast(t) ==
    /\ Frame(t).pc = "copy"
    /\ SetFrame(t, [Frame(t) EXCEPT !.pc = "store",
                                     !.tmp = SubSeq(PROXY_POOL, 1, Len(PROXY_POOL) - 1)])
    /\ UNCHANGED <<mainpc, net, x, proxies, PROXY_POOL, DOMAIN_PROXIES, accepted, poolWrites, overwrites, probes, lastProbed, reruns, arg, out>>

\* Line 83, right-hand side: PROXY_POOL.copy().
Copy(t) ==
    /\ Frame(t).pc = "copy"
    /\ SetFrame(t, [Frame(t) EXCEPT !.pc = "store", !.tmp = PROXY_POOL])
    /\ UNCHANGED <<mainpc, net, x, proxies, PROXY_POOL, DOMAIN_PROXIES, accepted, poolWrites, overwrites, probes, lastProbed, reruns, arg, out>>

\* Mutant of Store: the dictionary rebuilt with the one entry
\* (DOMAIN_PROXIES = {domain: <the list just built>}).
StoreAlone(t) ==
    /\ Frame(t).pc = "store"
    /\ LET d == Val(Frame(t).domain) IN
        /\ DOMAIN_PROXIES' = [k \in {d} |-> Frame(t).tmp]
        /\ overwrites' = [overwrites EXCEPT ![d] =
              IF d \in DOMAIN DOMAIN_PROXIES /\ DOMAIN_PROXIES[d] # Frame(t).tmp
              THEN @ + 1 ELSE @]
    /\ SetFrame(t, [Frame(t) EXCEPT !.pc = "cond", !.tmp = <<>>])
    /\ UNCHANGED <<mainpc, net, x, proxies, PROXY_POOL, accepted, poolWrites, probes, lastProbed, reruns, arg, out>>

\* Lines 81 and 83, the store: DOMAIN_PROXIES[domain] = <the list just built>.
Store(t) ==
    /\ Frame(t).pc = "store"
    /\ LET d == Val(Frame(t).domain) IN
        /\ DOMAIN_PROXIES' =
              [k \in (DOMAIN DOMAIN_PROXIES) \cup {d} |->
                  IF k = d THEN Frame(t).tmp ELSE DOMAIN_PROXIES[k]]
        /\ overwrites' = [overwrites EXCEPT ![d] =
              IF d \in DOMAIN DOMAIN_PROXIES /\ DOMAIN_PROXIES[d] # Frame(t).tmp
              THEN @ + 1 ELSE @]
    /\ SetFrame(t, [Frame(t) EXCEPT !.pc = "cond", !.tmp = <<>>])
    /\ UNCHANGED <<mainpc, net, x, proxies, PROXY_POOL, accepted, poolWrites, probes, lastProbed, reruns, arg, out>>

\* Mutant of Route: the payload built anew from the two fields the router
\* sets, the caller's other fields dropped.
RouteFreshPayload(f, proxy) ==
    IF proxy = None
    THEN [f EXCEPT !.pc = "error", !.exc = "AttributeError", !.proxy = None]
    ELSE LET sid == KeyTable[Val(f.domain), Val(proxy)]
             pay == [k \in DOMAIN f.payload |->
                        IF k = "session" THEN Some(sid)
                        ELSE IF k = "proxy" THEN proxy ELSE None]
         IN [f EXCEPT !.pc = "called", !.proxy = proxy, !.session_id = Some(sid),
                      !.payload = pay, !.calls = @ + 1]

\* Mutant of Route: a key made unique per request by appending the number of
\* the request.
RouteKeyPerRequest(f, proxy) ==
    IF proxy = None
    THEN [f EXCEPT !.pc = "error", !.exc = "AttributeError", !.proxy = None]
    ELSE LET sid == SessionKey(Val(f.domain), Val(proxy)) \o <<"-">> \o Digits(accepted)
             pay == [f.payload EXCEPT !.session = Some(sid), !.proxy = proxy]
         IN [f EXCEPT !.pc = "called", !.proxy = proxy, !.session_id = Some(sid),
                      !.payload = pay, !.calls = @ + 1]

\* Lines 87-97 on frame f with the proxy just selected: the session key, the
\* payload's session and proxy, req = V1RequestBase(payload) and the call of the
\* dispatcher.  These statements read and write the frame only.  proxy.replace
\* on None raises AttributeError before anything is dispatched.  At pc "called"
\* the dispatcher has been called with the frame's payload.
Route(f, proxy) ==
    IF proxy = None
    THEN [f EXCEPT !.pc = "error", !.exc = "AttributeError", !.proxy = None]
    ELSE LET sid == KeyTable[Val(f.domain), Val(proxy)]
             pay == [f.payload EXCEPT !.session = Some(sid), !.proxy = proxy]
         IN [f EXCEPT !.pc = "called", !.proxy = proxy, !.session_id = Some(sid),
                      !.payload = pay, !.calls = @ + 1]

\* Mutant of Cond: the conditional expression of line 85 with its branches
\* exchanged (None if DOMAIN_PROXIES[domain] else random.choice(...)).
CondExchanged(t) ==
    /\ Frame(t).pc \in {"cond", "found"}
    /\ IF DOMAIN_PROXIES[Val(Frame(t).domain)] = <<>>
       THEN SetFrame(t, [Frame(t) EXCEPT !.pc = "choice"])
       ELSE SetFrame(t, Route(Frame(t), None))
    /\ UNCHANGED <<mainpc, net, x, proxies, PROXY_POOL, DOMAIN_PROXIES, accepted, poolWrites, overwrites, probes, lastProbed, reruns, arg, out>>

\* Line 85, the condition: "... if DOMAIN_PROXIES[domain] else None"; with a
\* falsy list proxy is None and lines 87-97 follow.
Cond(t) ==
    /\ Frame(t).pc \in {"cond", "found"}
    /\ IF DOMAIN_PROXIES[Val(Frame(t).domain)] # <<>>
       THEN SetFrame(t, [Frame(t) EXCEPT !.pc = "choice"])
       ELSE SetFrame(t, Route(Frame(t), None))
    /\ UNCHANGED <<mainpc, net, x, proxies, PROXY_POOL, DOMAIN_PROXIES, accepted, poolWrites, overwrites, probes, lastProbed, reruns, arg, out>>

\* Mutant of Choice: the first member of the assignment, every time.
ChoiceFirst(t) ==
    /\ Frame(t).pc = "choice"
    /\ LET l == DOMAIN_PROXIES[Val(Frame(t).domain)] IN
        IF l = <<>>
        THEN Raise(t, "IndexError")
        ELSE SetFrame(t, Route(Frame(t), Some(l[1])))
    /\ UNCHANGED <<mainpc, net, x, proxies, PROXY_POOL, DOMAIN_PROXIES, accepted, poolWrites, overwrites, probes, lastProbed, reruns, arg, out>>

\* Line 85, the choice: random.choice(DOMAIN_PROXIES[domain]), a second read of
\* the dictionary, and lines 87-97 with the proxy chosen.
Choice(t) ==
    /\ Frame(t).pc = "choice"
    /\ LET l == DOMAIN_PROXIES[Val(Frame(t).domain)] IN
        IF l = <<>>
        THEN Raise(t, "IndexError")
        ELSE \E i \in 1 .. Len(l) : SetFrame(t, Route(Frame(t), Some(l[i])))
    /\ UNCHANGED <<mainpc, net, x, proxies, PROXY_POOL, DOMAIN_PROXIES, accepted, poolWrites, overwrites, probes, lastProbed, reruns, arg, out>>

\* Lines 98-128: the response is returned and the thread is free again.
Respond(t) ==
    /\ Frame(t).pc = "called"
    /\ SetFrame(t, IdleFrame)
    /\ UNCHANGED <<mainpc, net, x, proxies, PROXY_POOL, DOMAIN_PROXIES, accepted, poolWrites, overwrites, probes, lastProbed, reruns, arg, out>>

\* An exception leaves controller_v1; the thread is free again.
Abort(t) ==
    /\ Frame(t).pc = "error"
    /\ SetFrame(t, IdleFrame)
    /\ UNCHANGED <<mainpc, net, x, proxies, PROXY_POOL, DOMAIN_PROXIES, accepted, poolWrites, overwrites, probes, lastProbed, reruns, arg, out>>

Handler ==
    \E t \in Threads :
        \/ \E ok \in BOOLEAN, d \in Domains, p \in Payloads : Begin(t, ok, d, p)
        \/ Check(t)
        \/ LenTest(t)
        \/ Sample(t)
        \/ Copy(t)
        \/ Store(t)
        \/ Cond(t)
        \/ Choice(t)
        \/ Respond(t)
        \/ Abort(t)

Next ==
    \/ DiscoverProbe
    \/ DiscoverFinish
    \/ StartServer
    \/ Handler

Spec == Init /\ [][Next]_vars

\* A step of thread t between the entry of the handler and the call of the
\* dispatcher.  None of these steps waits for anything (the handler takes no
\* lock and does no input or output before line 97), so a thread that the
\* operating system keeps scheduling takes them.
Routing(t) ==
    \/ Check(t)
    \/ LenTest(t)
    \/ Sample(t)
    \/ Copy(t)
    \/ Store(t)
    \/ Cond(t)
    \/ Choice(t)

SpecFair == Spec /\ \A t \in Threads : WF_vars(Routing(t))

\* The server with discover_proxies called again while it serves.
NextRerun ==
    \/ Next
    \/ \E n \in RerunNetworks : Rediscover(n)

SpecRerun == Init /\ [][NextRerun]_vars

(********************* the handler's pure parts ****************************)
\* Line 96 and lines 98-128 read the request URL and the dispatcher's result
\* only, and the handler's treatment of the payload (lines 68, 76, 88, 89, 94)
\* reads the frame only.  They are applied here on their own, to inputs wider
\* than the ones the threads of Spec carry.

Https == <<"h", "t", "t", "p", "s">>
Http == <<"h", "t", "t", "p">>

\* Line 96: request.url.replace("http", "https").
RewriteUrl(u) == Replace(u, Http, Https)

\* Values of request.url.
Urls ==
    {<<"h", "t", "t", "p", ":", "/", "/", "a", ".", "b", "/">>,
     <<"h", "t", "t", "p", "s", ":", "/", "/", "a", ".", "b", "/">>,
     <<"h", "t", "t", "p", ":", "/", "/", "a", ".", "b", "/", "h", "t", "t", "p">>,
     <<"h", "t", "t", "p", ":", "/", "/", "a", ".", "b", ":", "8", "0", "/", "x", "?", "q", "=", "1">>,
     <<"h", "t", "t", "p", ":", "/", "/", "a", "_", "b", "/", "x">>,
     <<"h", "t", "t", "p", ":", "/", "/", "a", ".", "b", "/", "?", "u", "=", "h", "t", "t", "p", ":", "/", "/", "c">>}

\* bool(v) of an attribute that holds None or a string.
Truthy(o) == o # None /\ Val(o) # <<>>

DefaultMessage == <<"I", "n", "t", "e", "r", "n", "a", "l", " ", "S", "e", "r", "v", "e", "r", " ", "E", "r", "r", "o", "r">>
SecureScheme == <<"h", "t", "t", "p", "s", ":", "/", "/">>

\* Results of the dispatcher.  error_500 is res.__error_500__; message is
\* None, "" or a text; solution is None (also for a result without the
\* attribute) or an object whose response is None (also for an object without
\* the attribute), "" or a page.  The pages hold no ThankedByBox div, no
\* BoxInThisDiscussion div and no time element, so that lines 108-123 leave
\* them as they are and set no Last-Modified header.
Messages == {None, Some(<<>>), Some(<<"m">>)}
Pages == {<<>>, <<"x">>, <<"h", "t", "t", "p", "s", ":", "/", "/", "x">>, <<"h", "t", "t", "p", ":", "/", "/", "x">>}
Solutions == {None} \cup {Some([response |-> r]) : r \in {None} \cup {Some(pg) : pg \in Pages}}
Results == [error_500 : BOOLEAN, message : Messages, solution : Solutions]

\* Mutant of Response: line 99 left out, the status stays 200.
ResponseStatusUnset(res) ==
    IF res.error_500
    THEN [status |-> 200, content_type |-> "text/plain",
          body |-> [str |-> Some(IF Truthy(res.message) THEN Val(res.message)
                                 ELSE DefaultMessage),
                    dict |-> None],
          last_modified |-> None]
    ELSE IF res.solution # None /\ Truthy(Val(res.solution).response)
    THEN [status |-> 200, content_type |-> "text/html",
          body |-> [str |-> Some(Replace(Val(Val(res.solution).response),
                                         SecureScheme, HttpScheme)),
                    dict |-> None],
          last_modified |-> None]
    ELSE [status |-> 200, content_type |-> "application/json",
          body |-> [str |-> None, dict |-> Some(res)], last_modified |-> None]

\* Lines 98-128: the response for the dispatcher's result res.  The status is
\* 200 unless line 99 sets it.  The value returned is a string (str) or the
\* dictionary of the result (dict), which the framework serialises as JSON.
Response(res) ==
    IF res.error_500
    THEN [status |-> 500, content_type |-> "text/plain",
          body |-> [str |-> Some(IF Truthy(res.message) THEN Val(res.message)
                                 ELSE DefaultMessage),
                    dict |-> None],
          last_modified |-> None]
    ELSE IF res.solution # None /\ Truthy(Val(res.solution).response)
    THEN [status |-> 200, content_type |-> "text/html",
          body |-> [str |-> Some(Replace(Val(Val(res.solution).response),
                                         SecureScheme, HttpScheme)),
                    dict |-> None],
          last_modified |-> None]
    ELSE [status |-> 200, content_type |-> "application/json",
          body |-> [str |-> None, dict |-> Some(res)], last_modified |-> None]

\* Bodies request.json may hold, with fields of the caller besides session and
\* proxy.  A field that holds None is a key the body does not have.
CallerPayloads ==
    [session : {None, Some(<<"s">>)}, proxy : {None, Some(<<"p">>)},
     cmd : {None, Some(<<"g">>)}, maxTimeout : {None, Some(<<"9">>)}]

\* The proxies line 85 may yield in a network of two hosts.
Selections == {None, Some(ProxyUrl(1)), Some(ProxyUrl(119))}

\* Lines 67-76 and 87-97 on a request: what the handler does to its frame
\* around the proxy selection.
RouteRequest(ok, d, p, proxy) ==
    LET f == Enter(ok, d, p) IN IF f.pc = "error" THEN f ELSE Route(f, proxy)

Applications ==
    {[fn |-> "respond", res |-> r] : r \in Results}
        \cup {[fn |-> "rewrite", url |-> u] : u \in Urls}
        \cup {[fn |-> "route", ok |-> ok, domain |-> d, payload |-> p, proxy |-> e] :
                ok \in BOOLEAN, d \in Domains, p \in CallerPayloads, e \in Selections}

InitApply ==
    /\ InitProgram({})
    /\ arg \in Applications
    /\ out = None

ApplyRewrite ==
    /\ arg.fn = "rewrite"
    /\ out = None
    /\ out' = Some(RewriteUrl(arg.url))
    /\ UNCHANGED <<mainpc, net, x, proxies, PROXY_POOL, DOMAIN_PROXIES, th, accepted, poolWrites, overwrites, probes, lastProbed, reruns, arg>>

ApplyResponse ==
    /\ arg.fn = "respond"
    /\ out = None
    /\ out' = Some(Response(arg.res))
    /\ UNCHANGED <<mainpc, net, x, proxies, PROXY_POOL, DOMAIN_PROXIES, th, accepted, poolWrites, overwrites, probes, lastProbed, reruns, arg>>

ApplyRoute ==
    /\ arg.fn = "route"
    /\ out = None
    /\ out' = Some(RouteRequest(arg.ok, arg.domain, arg.payload, arg.proxy))
    /\ UNCHANGED <<mainpc, net, x, proxies, PROXY_POOL, DOMAIN_PROXIES, th, accepted, poolWrites, overwrites, probes, lastProbed, reruns, arg>>

NextApply ==
    \/ ApplyRewrite
    \/ ApplyResponse
    \/ ApplyRoute

SpecApply == InitApply /\ [][NextApply]_vars

(******************************* claims ************************************)
Assigned == DOMAIN DOMAIN_PROXIES
Called(t) == Frame(t).pc = "called"
Distinct(l) == \A i, j \in 1 .. Len(l) : i # j => l[i] # l[j]

\* C1: once DOMAIN_PROXIES holds an assignment for a domain, no later step
\* changes the set of proxies stored for that domain.
C1_AssignmentNeverChanges ==
    [][\A d \in Assigned :
          /\ d \in DOMAIN DOMAIN_PROXIES'
          /\ Range(DOMAIN_PROXIES'[d]) = Range(DOMAIN_PROXIES[d])]_vars

\* C2: concurrent first requests for one domain store exactly one assignment
\* for it: no store ever replaces the assignment of a domain by a different
\* one, so no handler holds a sample that was discarded or overwritten.
C2_OneAssignmentPerDomain == \A d \in Domains : overwrites[d] = 0

\* C3: with an empty pool a request that has a domain does not fail: it never
\* leaves the handler by an exception.
C3_EmptyPoolForwarded ==
    \A t \in Threads :
        (mainpc = "serving" /\ PROXY_POOL = <<>> /\ Frame(t).domain # None)
            => Frame(t).pc # "error"

\* C4: a request whose URL failed to parse (its domain is none) never leaves
\* the handler by an exception.
C4_ParseFailureNonFatal ==
    \A t \in Threads : Frame(t).pc = "error" => Frame(t).domain # None

\* C5: every stored assignment has at most 10 members and at most as many as
\* the pool; with a pool of 10 or more it has exactly 10 pairwise distinct
\* members; every member is an endpoint of the pool.
C5_AssignmentSize ==
    \A d \in Assigned :
        LET l == DOMAIN_PROXIES[d] IN
            /\ Len(l) <= SubsetCap
            /\ Len(l) <= Len(PROXY_POOL)
            /\ Len(PROXY_POOL) >= SubsetCap => (Len(l) = SubsetCap /\ Distinct(l))
            /\ Range(l) \subseteq Range(PROXY_POOL)

C5_Witness ==
    \E d \in Assigned :
        /\ Len(PROXY_POOL) > SubsetCap
        /\ Len(DOMAIN_PROXIES[d]) = SubsetCap
        /\ Range(DOMAIN_PROXIES[d]) # Range(PROXY_POOL)

\* C6: with a pool of fewer than 10 endpoints, the assignment stored for any
\* domain is the whole pool: the same endpoints, none missing, none extra.
C6_SmallPoolWhole ==
    Len(PROXY_POOL) < SubsetCap =>
        \A d \in Assigned :
            /\ Range(DOMAIN_PROXIES[d]) = Range(PROXY_POOL)
            /\ Len(DOMAIN_PROXIES[d]) = Len(PROXY_POOL)

C6_Witness ==
    /\ Len(PROXY_POOL) \in 1 .. (SubsetCap - 1)
    /\ Assigned = Domains
    /\ \A d \in Assigned : DOMAIN_PROXIES[d] = PROXY_POOL

\* C7: two dispatched requests that differ in exactly one of domain and proxy
\* carry different session keys.
C7_KeyInjective ==
    \A t1, t2 \in Threads :
        (/\ Called(t1) /\ Called(t2)
         /\ \/ Frame(t1).domain # Frame(t2).domain /\ Frame(t1).proxy = Frame(t2).proxy
            \/ Frame(t1).domain = Frame(t2).domain /\ Frame(t1).proxy # Frame(t2).proxy)
            => Frame(t1).payload.session # Frame(t2).payload.session

\* C8: two requests that resolve to the same domain and select the same proxy
\* are dispatched with the identical session string.
C8_KeyDeterministic ==
    \A t1, t2 \in Threads :
        (/\ Called(t1) /\ Called(t2)
         /\ Frame(t1).domain = Frame(t2).domain
         /\ Frame(t1).proxy = Frame(t2).proxy)
            => Frame(t1).payload.session = Frame(t2).payload.session

C8_Witness ==
    \E t1, t2 \in Threads :
        /\ t1 # t2
        /\ Called(t1) /\ Called(t2)
        /\ Frame(t1).domain = Frame(t2).domain
        /\ Frame(t1).proxy = Frame(t2).proxy
        /\ overwrites[Val(Frame(t1).domain)] = 0

\* C9: a dispatched request carries the proxy selected for it, that proxy is a
\* member of the assignment stored for its domain, and its session is the key
\* of that domain and proxy, not one of the provisional values.
C9_DispatchedFields ==
    \A t \in Threads :
        Called(t) =>
            LET f == Frame(t) IN
                /\ f.proxy # None
                /\ f.payload.proxy = f.proxy
                /\ Val(f.proxy) \in Range(DOMAIN_PROXIES[Val(f.domain)])
                /\ f.payload.session = Some(SessionKey(Val(f.domain), Val(f.proxy)))
                /\ f.payload.session # f.domain
                /\ f.payload.session # Some(DefaultSession)

\* C10: PROXY_POOL is written once, by discover_proxies, before the server
\* accepts a request, and no step taken while the server runs changes it.
C10_PoolWrittenOnce ==
    /\ [](/\ poolWrites <= 1
          /\ mainpc = "serving" => poolWrites = 1
          /\ poolWrites = 0 => (accepted = 0 /\ mainpc = "discover"))
    /\ [][mainpc = "serving" => PROXY_POOL' = PROXY_POOL]_vars

C10_Witness ==
    /\ mainpc = "serving"
    /\ poolWrites = 1
    /\ Len(PROXY_POOL) > SubsetCap
    /\ \E t \in Threads : Called(t)

\* The endpoints of the hosts of S, in ascending order of the candidate number.
UrlsOf(S) == [i \in 1 .. Cardinality(S) |-> ProxyUrl(Nth(S, i))]
ReachableTable == [n \in Networks |-> UrlsOf(n)]

\* C11: every call of discover_proxies probes the candidates 0 .. 119 once
\* each in ascending order (the k-th connection of a call goes to candidate
\* k - 1); during the scan the local list holds exactly the endpoints of the
\* reachable candidates probed so far, in probe order; after each call
\* PROXY_POOL is exactly the list of the endpoints of the reachable hosts,
\* whatever it held before; a failed probe changes neither list and the scan
\* goes on with the next candidate.
C11_ScanOnceInOrder ==
    /\ [](/\ lastProbed = (IF probes = 0 THEN -1 ELSE (probes - 1) % NumCandidates)
          /\ probes = NumCandidates * poolWrites + (IF mainpc = "discover" THEN x ELSE 0)
          /\ mainpc = "discover" =>
                (x <= NumCandidates /\ proxies = UrlsOf({h \in net : h < x}))
          /\ poolWrites > 0 => PROXY_POOL = ReachableTable[net])
    /\ [][(mainpc = "discover" /\ x < NumCandidates /\ x \notin net) =>
            (x' = x + 1 /\ proxies' = proxies /\ PROXY_POOL' = PROXY_POOL
                /\ mainpc' = "discover")]_vars

\* A second scan has replaced a pool of more than 10 endpoints by the two
\* endpoints now reachable, the second of them the last candidate.
C11_Witness ==
    /\ reruns = 1
    /\ net = {1, 119}
    /\ PROXY_POOL = <<ProxyUrl(1), ProxyUrl(119)>>
    /\ \E d \in Assigned : Len(DOMAIN_PROXIES[d]) = SubsetCap

Applied(fn) == arg.fn = fn /\ out # None
HasPage(r) ==
    /\ r.solution # None
    /\ Val(r.solution).response # None
    /\ Len(Val(Val(r.solution).response)) > 0

\* C12, as claimed: the response has status 500, content type text/plain and
\* the dispatcher's message as its body exactly when the dispatcher reports an
\* internal error; otherwise the status is 200, the content type is text/html
\* when the result carries a non-empty solution response, and in every other
\* case the body is the result object, sent as JSON.
C12_ResponseByResult ==
    Applied("respond") =>
        LET r == arg.res
            o == Val(out)
        IN /\ r.error_500 <=> (/\ o.status = 500
                               /\ o.content_type = "text/plain"
                               /\ o.body.str = r.message)
           /\ ~r.error_500 =>
                /\ o.status = 200
                /\ HasPage(r) => o.content_type = "text/html"
                /\ ~HasPage(r) => (/\ o.content_type = "application/json"
                                   /\ o.body.dict = Some(r))

\* C12, amended: as claimed, except that the body of the 500 response is the
\* dispatcher's message when that message is a non-empty text and the text
\* "Internal Server Error" when the message is empty or none.
C12_ResponseByResultOrDefault ==
    Applied("respond") =>
        LET r == arg.res
            o == Val(out)
            text == IF r.message # None /\ Len(Val(r.message)) > 0
                    THEN Val(r.message) ELSE DefaultMessage
        IN /\ r.error_500 <=> (/\ o.status = 500
                               /\ o.content_type = "text/plain"
                               /\ o.body.str = Some(text))
           /\ ~r.error_500 =>
                /\ o.status = 200
                /\ HasPage(r) => o.content_type = "text/html"
                /\ ~HasPage(r) => (/\ o.content_type = "application/json"
                                   /\ o.body.dict = Some(r))

\* The response to an internal error reported with an empty message.
C12_Witness ==
    /\ Applied("respond")
    /\ arg.res.error_500
    /\ arg.res.message = Some(<<>>)
    /\ HasPage(arg.res)
    /\ Val(out).status = 500
    /\ Val(out).body.str = Some(DefaultMessage)

\* The scheme of a URL ends before its first colon.
SchemeLen(u) == (CHOOSE i \in 1 .. Len(u) : u[i] = ":" /\ \A j \in 1 .. (i - 1) : u[j] # ":") - 1
AfterScheme(u) == SubSeq(u, SchemeLen(u) + 1, Len(u))

\* C13: the URL handed to the dispatcher has the scheme https, and everything
\* after the scheme (host, port, path, query) is as in the request URL.
C13_OnlySchemeRewritten ==
    Applied("rewrite") => Val(out) = Https \o AfterScheme(arg.url)

\* C14: the payload the handler ends with has the keys of the caller's body,
\* and every key other than session and proxy holds the caller's value, also
\* in the payload handed to V1RequestBase.
C14_PayloadPassThrough ==
    Applied("route") =>
        LET pay == Val(out).payload IN
            /\ DOMAIN pay = DOMAIN arg.payload
            /\ \A k \in (DOMAIN arg.payload) \ {"session", "proxy"} : pay[k] = arg.payload[k]

\* A dispatched request whose body named a command, a timeout, a session and
\* a proxy: the first two arrive, the last two are the router's.
C14_Witness ==
    /\ Applied("route")
    /\ Val(out).pc = "called"
    /\ arg.payload.cmd # None /\ arg.payload.maxTimeout # None
    /\ arg.payload.session # None /\ arg.payload.proxy # None
    /\ Val(out).payload.cmd = arg.payload.cmd
    /\ Val(out).payload.proxy # arg.payload.proxy
    /\ Val(out).payload.session # arg.payload.session

\* C15: a step of a request for domain D leaves PROXY_POOL as it is, leaves
\* the assignment of every other domain as it is and adds no entry but D's;
\* a request that found its domain in DOMAIN_PROXIES at line 79 never reaches
\* lines 80-83 and none of its steps changes DOMAIN_PROXIES.
C15_RequestTouchesOwnEntry ==
    [][\A t \in Threads :
          th'[t] # th[t] =>
            LET f == Frame(t)
                found == f.pc = "found" \/ (f.pc = "check" /\ Val(f.domain) \in Assigned)
            IN /\ PROXY_POOL' = PROXY_POOL
               /\ \A e \in Assigned :
                     f.domain # Some(e) =>
                        (e \in DOMAIN DOMAIN_PROXIES' /\ DOMAIN_PROXIES'[e] = DOMAIN_PROXIES[e])
               /\ \A e \in (DOMAIN DOMAIN_PROXIES') \ Assigned : f.domain = Some(e)
               /\ found => /\ DOMAIN_PROXIES' = DOMAIN_PROXIES
                           /\ th'[t].pc \notin {"len", "sample", "copy", "store"}]_vars

\* A request has found its domain assigned, in a network with more proxies
\* than an assignment holds, while the request that stored the assignment is
\* at the dispatcher.
C15_Witness ==
    \E t, u \in Threads :
        /\ Frame(t).pc = "found"
        /\ Called(u)
        /\ Frame(u).domain = Frame(t).domain
        /\ Len(PROXY_POOL) > SubsetCap

\* C16: at every time at which a request is about to choose its proxy,
\* every member of the assignment of its domain is a possible outcome of the
\* choice, whatever earlier requests chose, and the choice leaves the
\* assignment as it is.
C16_EveryMemberSelectable ==
    [](\A t \in Threads :
        Frame(t).pc = "choice" =>
            LET l == DOMAIN_PROXIES[Val(Frame(t).domain)] IN
                \A i \in 1 .. Len(l) :
                    ENABLED (/\ Choice(t)
                             /\ th'[t].proxy = Some(l[i])
                             /\ th'[t].pc = "called"
                             /\ DOMAIN_PROXIES' = DOMAIN_PROXIES))

\* Two requests for one domain are at the dispatcher with different proxies
\* and different session keys; the assignment of the domain was never
\* replaced by another.
C16_Witness ==
    \E t1, t2 \in Threads :
        /\ Called(t1) /\ Called(t2)
        /\ Frame(t1).domain = Frame(t2).domain
        /\ Frame(t1).proxy # Frame(t2).proxy
        /\ Frame(t1).payload.session # Frame(t2).payload.session
        /\ Len(DOMAIN_PROXIES[Val(Frame(t1).domain)]) >= 2
        /\ overwrites[Val(Frame(t1).domain)] = 0

\* C17: a request that fails on the missing proxy has stored the assignment
\* of its domain before; an empty assignment, once stored, stays the
\* assignment of its domain, also when discover_proxies is run again and
\* fills the pool, and no request for that domain is dispatched from then on.
C17_EmptyAssignmentSticky ==
    /\ [](\A t \in Threads :
            (Frame(t).pc = "error" /\ Frame(t).exc = "AttributeError")
                => Val(Frame(t).domain) \in Assigned)
    /\ [][\A d \in Assigned :
            DOMAIN_PROXIES[d] = <<>> =>
                /\ d \in DOMAIN DOMAIN_PROXIES'
                /\ DOMAIN_PROXIES'[d] = <<>>
                /\ \A t \in Threads :
                      (th'[t].pc = "called" /\ th'[t].domain = Some(d))
                          => th[t].pc = "called"]_vars

InRouting(t) ==
    Frame(t).pc \in {"check", "found", "len", "sample", "copy", "store", "cond", "choice"}

\* C18: while the pool is not empty, a request that has a domain never leaves
\* the handler by an exception, reaches the dispatcher, has called it once
\* when it is there and not before, carries a proxy that is not none, and
\* goes from the dispatcher nowhere but to the end of the handler.
C18_RoutedOnce ==
    /\ [](PROXY_POOL # <<>> =>
            \A t \in Threads :
                Frame(t).domain # None =>
                    /\ Frame(t).pc # "error"
                    /\ Frame(t).calls = (IF Called(t) THEN 1 ELSE 0)
                    /\ Called(t) => (/\ Frame(t).proxy # None
                                     /\ Frame(t).payload.proxy = Frame(t).proxy))
    /\ [][\A t \in Threads : Called(t) => th'[t].pc \in {"called", "idle"}]_vars
    /\ \A t \in Threads : (PROXY_POOL # <<>> /\ InRouting(t)) ~> Called(t)

\* Both threads have routed a request in a network with proxies: one is at
\* the dispatcher, the other still on its way.
C18_Witness ==
    /\ PROXY_POOL # <<>>
    /\ \E t1, t2 \in Threads :
        /\ Called(t1) /\ Frame(t1).calls = 1 /\ Frame(t1).proxy # None
        /\ InRouting(t2)

====
